---- MODULE Spec2Model ----
(***************************************************************************)
(* Model of _samgeo_lib.py: get_samgeo() and its three import strategies,  *)
(* run against an explicit model of the interpreter's import state          *)
(* (sys.modules, sys.path), the packages on disk and the installed          *)
(* distribution metadata.                                                   *)
(*                                                                          *)
(* Strings that the code inspects (file names of a distribution, module    *)
(* origins) are sequences of tokens; "/" and "\\" are the separator tokens  *)
(* and neighbouring non-separator tokens concatenate ("x","samgeo" is the   *)
(* path component xsamgeo).                                                 *)
(***************************************************************************)
EXTENDS Integers, Sequences, FiniteSets, TLC

\* ------------------------------------------------------------------ bounds
\* Module objects created in one behaviour (each load makes a new object).
MaxLoads == 3
\* Changes the environment makes between calls in one behaviour.
MaxEnvChanges == 2

\* --------------------------------------------------------------- constants
\* A module object: identity (id), origin (__file__ as a token sequence, <<>>
\* when the module has none) and whether its initializer ran to completion.
\* None is Python's None, in the same shape so that it compares with modules.
None == [id |-> 0, file |-> <<>>, complete |-> FALSE]

LogicalName == "samgeo"
alias_name == "samgeo_external"
ModuleNames == {LogicalName, alias_name}

\* Variant: the candidate names in the other order.
dist_names_swapped == <<"samgeo-py", "samgeo">>

\* for dist_name in ("samgeo", "samgeo-py")
dist_names == <<"samgeo", "samgeo-py">>

\* Directories that can be on sys.path: the plugins folder (the parent of the
\* plugin package) and the site-packages folder of the interpreter.
PluginsDir == "plugins"
SiteDir == "site"
Dirs == {PluginsDir, SiteDir}
Paths == { <<>>, <<PluginsDir>>, <<SiteDir>>, <<PluginsDir, SiteDir>>, <<SiteDir, PluginsDir>> }

\* The plugin folder is named samgeo (the official repository name) or not.
PluginNames == {"samgeo", "sam_plugin"}

\* A samgeo package in a directory: none, one whose initializer runs, one
\* whose initializer raises.
PkgKinds == {"absent", "ok", "raises"}

\* Interpreters the plugin may run in: sys.executable and sys.version_info.
Interpreters ==
    { [executable |-> "/usr/bin/python3", version_info |-> <<3, 12, 4>>],
      [executable |-> "C:/QGIS/bin/python.exe", version_info |-> <<3, 9, 18>>] }

\* ------------------------------------------------------------ distribution
InitFile == <<"samgeo", "/", "__init__.py">>
InitFileWin == <<"samgeo", "\\", "__init__.py">>
CommonFile == <<"samgeo", "/", "common.py">>
DecoyInitFile == <<"x", "samgeo", "/", "__init__.py">>

\* File listings a distribution record can hold (dist.files): no RECORD at
\* all, a listing with the initializer after another file, a listing written
\* with backslashes, a listing where a package whose name ends in samgeo
\* comes first, and a listing without the initializer.
FileListings ==
    { <<>>,
      <<CommonFile, InitFile>>,
      <<InitFileWin>>,
      <<DecoyInitFile, InitFile>>,
      <<CommonFile>> }

\* A distribution name in the metadata: not installed, installed with a
\* RECORD that cannot be parsed, or installed with a file listing.
DistStates ==
    { [state |-> "absent", files |-> <<>>], [state |-> "malformed", files |-> <<>>] }
    \cup { [state |-> "installed", files |-> fl] : fl \in FileListings }

\* ------------------------------------------------------------------- state
VARIABLES
    _CACHED,          \* _CACHED
    sys_modules,     \* sys.modules, the entries "samgeo" and "samgeo_external"
    sys_path,        \* sys.path
    pluginName,      \* name of the folder holding _samgeo_lib.py
    pluginInit,      \* what the plugin package's __init__.py does when run
    sitePkg,         \* the samgeo package in site-packages
    dists,           \* installed distribution metadata, by distribution name
    interp,          \* sys.executable, sys.version_info
    pc,              \* position of the running get_samgeo() call
    dist_idx,        \* position of the for loop over dist_names
    imported,        \* result of the path-suppressed import, before finally
    orig_sys_path,   \* local of _import_samgeo_without_plugin_shadow
    orig_samgeo_mod, \* local of _import_samgeo_without_plugin_shadow
    loads,           \* module objects created so far
    envChanges,      \* changes of the environment so far
    result,          \* outcome of the last get_samgeo() call
    tried,           \* strategies attempted by the current / last call
    entry,           \* sys.path and sys.modules when the call started
    s2_pre           \* sys.path and sys.modules["samgeo"] before strategy 2

env == <<pluginName, pluginInit, sitePkg, dists, interp>>
locals == <<dist_idx, imported, orig_sys_path, orig_samgeo_mod>>
vars == <<_CACHED, sys_modules, sys_path, env, pc, locals, loads, envChanges,
          result, tried, entry, s2_pre>>

\* ----------------------------------------------------------------- strings
Range(s) == { s[i] : i \in DOMAIN s }

\* str.replace("\\", "/")
Replace(s) == [i \in DOMAIN s |-> IF s[i] = "\\" THEN "/" ELSE s[i]]

\* str.endswith(suffix)
EndsWith(s, suffix) ==
    /\ Len(s) >= Len(suffix)
    /\ SubSeq(s, Len(s) - Len(suffix) + 1, Len(s)) = suffix

\* sub in s
Contains(s, sub) ==
    \E i \in 0..(Len(s) - Len(sub)) : SubSeq(s, i + 1, i + Len(sub)) = sub

\* Variant: only the directory itself counts, not what lies below it.
is_relative_to_same_path(file, directory) == file = directory

\* Path.is_relative_to on resolved paths: directory is file or an ancestor.
is_relative_to(file, directory) ==
    \/ file = directory
    \/ /\ Len(file) > Len(directory)
       /\ SubSeq(file, 1, Len(directory)) = directory
       /\ file[Len(directory) + 1] = "/"

\* Path(__file__).resolve().parent
plugin_dir == <<PluginsDir, "/", pluginName>>
\* plugin_pkg_dir.parent
plugin_parent == <<PluginsDir>>

\* Variant: the containment test never recognises the plugin directory.
is_module_from_dir_never(mod, directory) == FALSE

_is_module_from_dir(mod, directory) ==
    IF mod.file = <<>> THEN FALSE ELSE is_relative_to(mod.file, directory)

\* ------------------------------------------------------------------ import
\* The samgeo package a directory of sys.path holds.
PkgAt(d) ==
    IF d = PluginsDir
    THEN (IF pluginName = LogicalName THEN pluginInit ELSE "absent")
    ELSE sitePkg

PkgInitFile(d) == <<d, "/", LogicalName, "/", "__init__.py">>

\* The path finder: the first directory of the search path, in order, that
\* holds a samgeo package; "" when none does.
RECURSIVE FindPackage(_)
FindPackage(path) ==
    IF path = <<>> THEN ""
    ELSE IF PkgAt(Head(path)) # "absent" THEN Head(path)
    ELSE FindPackage(Tail(path))

\* A new module object, the id-th created in this process.
NewModule(id, file, complete) == [id |-> id, file |-> file, complete |-> complete]

\* importlib.import_module("samgeo") with registry mods and search path path:
\* a registered module is returned as it is; otherwise the package found on
\* the path is loaded and registered, and a package that is not found, or
\* whose initializer raises, raises and leaves no entry behind.
import_module(mods, path, id) ==
    LET d == FindPackage(path)
        m == NewModule(id, PkgInitFile(d), TRUE)
    IN  IF mods[LogicalName] # None
        THEN [raised |-> FALSE, module |-> mods[LogicalName], modules |-> mods,
              loaded |-> FALSE]
        ELSE IF d = "" \/ PkgAt(d) = "raises"
        THEN [raised |-> TRUE, module |-> None, modules |-> mods, loaded |-> FALSE]
        ELSE [raised |-> FALSE, module |-> m,
              modules |-> [mods EXCEPT ![LogicalName] = m], loaded |-> TRUE]

\* ------------------------------------------------------ distribution lookup
\* importlib.metadata.distribution(dist_name): distributions are discovered
\* through sys.path, and they are installed in site-packages.
DistFound(dist_name, path) ==
    SiteDir \in Range(path) /\ dists[dist_name].state # "absent"

\* Variant: the loop has no break, so the last matching file is kept.
RECURSIVE FindInitRelLast(_)
FindInitRelLast(files) ==
    IF files = <<>> THEN <<>>
    ELSE IF FindInitRelLast(Tail(files)) # <<>> THEN FindInitRelLast(Tail(files))
    ELSE IF EndsWith(Replace(Head(files)), InitFile) THEN Head(files)
    ELSE <<>>

\* for f in files: if str(f).replace("\\", "/").endswith("samgeo/__init__.py"):
\*     init_rel = f; break
\* The first matching file of the listing, <<>> for init_rel = None.
RECURSIVE FindInitRel(_)
FindInitRel(files) ==
    IF files = <<>> THEN <<>>
    ELSE IF EndsWith(Replace(Head(files)), InitFile) THEN Head(files)
    ELSE FindInitRel(Tail(files))

\* Path(dist.locate_file(init_rel)).resolve(): the file below the directory
\* the distribution is installed in, separators as the platform reads them.
LocateFile(init_rel) == <<SiteDir, "/">> \o Replace(init_rel)

\* What spec.loader.exec_module does for the file at init_path: the library's
\* initializer behaves as the package in site-packages does (a listed file
\* that is missing on disk raises), another package's initializer runs.
ExecRaises(init_path) ==
    IF init_path = PkgInitFile(SiteDir) THEN sitePkg # "ok" ELSE FALSE

\* Variant: the loaded module is registered under the logical name.
load_external_samgeo_under_logical_name(dist_name, mods, path, id) ==
    LET dist == dists[dist_name]
        init_rel == FindInitRel(dist.files)
        init_path == LocateFile(init_rel)
        existing == mods[LogicalName]
        raises == ExecRaises(init_path)
        module == NewModule(id, init_path, ~raises)
        nothing == [raised |-> FALSE, ret |-> None, modules |-> mods,
                    loaded |-> FALSE, executed |-> FALSE]
    IN  IF ~DistFound(dist_name, path) THEN nothing
        ELSE IF dist.state = "malformed"
        THEN [nothing EXCEPT !.raised = TRUE]
        ELSE IF init_rel = <<>> THEN nothing
        ELSE [raised |-> raises,
              ret |-> IF raises THEN None ELSE module,
              modules |-> [mods EXCEPT ![LogicalName] = module],
              loaded |-> TRUE, executed |-> TRUE]

\* _load_external_samgeo_from_dist(dist_name) in registry mods with search
\* path path: [raised, ret, modules, loaded, executed].
_load_external_samgeo_from_dist(dist_name, mods, path, id) ==
    LET dist == dists[dist_name]
        init_rel == FindInitRel(dist.files)
        init_path == LocateFile(init_rel)
        existing == mods[alias_name]
        raises == ExecRaises(init_path)
        module == NewModule(id, init_path, ~raises)
        nothing == [raised |-> FALSE, ret |-> None, modules |-> mods,
                    loaded |-> FALSE, executed |-> FALSE]
    IN  IF ~DistFound(dist_name, path) THEN nothing
        ELSE IF dist.state = "malformed"
        THEN [nothing EXCEPT !.raised = TRUE]
        ELSE IF init_rel = <<>> THEN nothing
        ELSE IF existing # None THEN [nothing EXCEPT !.ret = existing]
        ELSE [raised |-> raises,
              ret |-> IF raises THEN None ELSE module,
              modules |-> [mods EXCEPT ![alias_name] = module],
              loaded |-> TRUE, executed |-> TRUE]

\* ------------------------------------------------------------ error message
\* f"{sys.version_info.major}.{sys.version_info.minor}.{sys.version_info.micro}"
VersionString(v) == <<ToString(v[1]), ".", ToString(v[2]), ".", ToString(v[3])>>

\* Variant: the version is cut to major.minor.
ErrorMessageShortVersion(py, ver) ==
    << "SamGeo plugin could not import the external 'samgeo' library because the plugin package name shadows it.",
       "QGIS Python:", "executable: ", py, "version: " >> \o SubSeq(ver, 1, 3)

\* The text of the ImportError get_samgeo() raises.
ErrorMessage(py, ver) ==
    << "SamGeo plugin could not import the external 'samgeo' library because the plugin package name shadows it.",
       "QGIS Python:", "executable: ", py, "version: " >> \o ver \o
    << "Fix: install the SamGeo Python package into *this same Python environment*.",
       "subprocess.check_call([sys.executable, '-m', 'pip', 'install', '--user', 'samgeo'])" >>

\* ----------------------------------------------------------- call outcomes
NoResult == [kind |-> "none", handle |-> None, message |-> <<>>]
Running == [kind |-> "running", handle |-> None, message |-> <<>>]
Returned(h) == [kind |-> "handle", handle |-> h, message |-> <<>>]
Raised(kind, msg) == [kind |-> kind, handle |-> None, message |-> msg]

NoSnapshot == [path |-> <<>>, modules |-> [n \in ModuleNames |-> None]]
NoPre == [path |-> <<>>, mod |-> None]

ResetLocals ==
    /\ dist_idx' = 1
    /\ imported' = None
    /\ orig_sys_path' = <<>>
    /\ orig_samgeo_mod' = None
    /\ entry' = NoSnapshot
    /\ s2_pre' = NoPre

\* _CACHED = h; return h
Return(h) ==
    /\ _CACHED' = h
    /\ result' = Returned(h)
    /\ pc' = "idle"
    /\ ResetLocals

\* Variant: the module registered under the alias is cached before the
\* exception leaves.
RaiseAfterCaching(kind, msg) ==
    /\ result' = Raised(kind, msg)
    /\ pc' = "idle"
    /\ ResetLocals
    /\ _CACHED' = sys_modules'[alias_name]

\* An exception leaves get_samgeo().
Raise(kind, msg) ==
    /\ result' = Raised(kind, msg)
    /\ pc' = "idle"
    /\ ResetLocals
    /\ UNCHANGED _CACHED

\* ------------------------------------------------------------- get_samgeo()
\* Variant: the cached handle is dropped when it is no longer registered.
GetSamgeoCachedRevalidate ==
    /\ pc = "idle"
    /\ _CACHED # None
    /\ IF _CACHED \in {sys_modules[n] : n \in ModuleNames}
       THEN result' = Returned(_CACHED) /\ _CACHED' = _CACHED
       ELSE result' = NoResult /\ _CACHED' = None
    /\ tried' = <<>>
    /\ UNCHANGED <<sys_modules, sys_path, env, pc, locals, loads,
                   envChanges, entry, s2_pre>>

\* Variant: the cached branch registers the handle under the alias again.
GetSamgeoCachedReregister ==
    /\ pc = "idle"
    /\ _CACHED # None
    /\ result' = Returned(_CACHED)
    /\ tried' = <<>>
    /\ sys_modules' = [sys_modules EXCEPT ![alias_name] = _CACHED]
    /\ UNCHANGED <<_CACHED, sys_path, env, pc, locals, loads,
                   envChanges, entry, s2_pre>>

\* if _CACHED is not None: return _CACHED
GetSamgeoCached ==
    /\ pc = "idle"
    /\ _CACHED # None
    /\ result' = Returned(_CACHED)
    /\ tried' = <<>>
    /\ UNCHANGED <<_CACHED, sys_modules, sys_path, env, pc, locals, loads,
                   envChanges, entry, s2_pre>>

\* Strategy 1: the normal import, accepted unless it is the plugin package.
DirectImport ==
    /\ pc = "idle"
    /\ _CACHED = None
    /\ LET r == import_module(sys_modules, sys_path, loads + 1)
       IN  /\ r.loaded => loads < MaxLoads
           /\ sys_modules' = r.modules
           /\ loads' = IF r.loaded THEN loads + 1 ELSE loads
           /\ tried' = <<"direct">>
           /\ IF ~r.raised /\ ~_is_module_from_dir(r.module, plugin_dir)
              THEN Return(r.module)
              ELSE /\ pc' = "shadow"
                   /\ result' = Running
                   /\ entry' = [path |-> sys_path, modules |-> sys_modules]
                   /\ UNCHANGED <<_CACHED, locals, s2_pre>>
    /\ UNCHANGED <<sys_path, env, envChanges>>

\* Variant: nothing is taken off the path.
SuppressNothing(path) == path

\* sys.path = [p for p in sys.path if Path(p).resolve() != plugin_parent.resolve()]
SuppressPluginParent(path) == SelectSeq(path, LAMBDA p : <<p>> # plugin_parent)

\* Strategy 2, entry: save sys.path and sys.modules["samgeo"], take the plugin
\* parent off the path, evict the registered module.
ShadowEnter ==
    /\ pc = "shadow"
    /\ orig_sys_path' = sys_path
    /\ orig_samgeo_mod' = sys_modules[LogicalName]
    /\ sys_path' = SuppressPluginParent(sys_path)
    /\ sys_modules' = [sys_modules EXCEPT ![LogicalName] = None]
    /\ s2_pre' = [path |-> sys_path, mod |-> sys_modules[LogicalName]]
    /\ tried' = Append(tried, "shadow")
    /\ pc' = "shadow_import"
    /\ UNCHANGED <<_CACHED, env, dist_idx, imported, loads, envChanges, result, entry>>

\* Strategy 2, the import in the try block: the imported module, or None when
\* it lies in the plugin directory or the import raised.
ShadowImport ==
    /\ pc = "shadow_import"
    /\ LET r == import_module(sys_modules, sys_path, loads + 1)
       IN  /\ r.loaded => loads < MaxLoads
           /\ sys_modules' = r.modules
           /\ loads' = IF r.loaded THEN loads + 1 ELSE loads
           /\ imported' = IF r.raised \/ _is_module_from_dir(r.module, plugin_dir)
                          THEN None ELSE r.module
    /\ pc' = "shadow_finally"
    /\ UNCHANGED <<_CACHED, sys_path, env, dist_idx, orig_sys_path, orig_samgeo_mod,
                   envChanges, result, tried, entry, s2_pre>>

\* Variant: the finally block leaves sys.path as the try block set it.
RestorePathSkipped(path, orig) == path

\* finally: sys.path = orig_sys_path
RestorePath(path, orig) == orig

\* finally: if orig_samgeo_mod is not None: sys.modules["samgeo"] = orig_samgeo_mod
RestoreModules(mods, orig) ==
    IF orig # None THEN [mods EXCEPT ![LogicalName] = orig] ELSE mods

\* Strategy 2, the finally block, and get_samgeo()'s use of the result.
ShadowFinally ==
    /\ pc = "shadow_finally"
    /\ sys_path' = RestorePath(sys_path, orig_sys_path)
    /\ sys_modules' = RestoreModules(sys_modules, orig_samgeo_mod)
    /\ IF imported # None
       THEN Return(imported)
       ELSE /\ pc' = "dist"
            /\ dist_idx' = 1
            /\ imported' = None
            /\ orig_sys_path' = <<>>
            /\ orig_samgeo_mod' = None
            /\ s2_pre' = NoPre
            /\ UNCHANGED <<_CACHED, result, entry>>
    /\ UNCHANGED <<env, loads, envChanges, tried>>

\* Strategy 3: one turn of the loop over dist_names.
LoadFromDist ==
    /\ pc = "dist"
    /\ LET dist_name == dist_names[dist_idx]
           r == _load_external_samgeo_from_dist(dist_name, sys_modules, sys_path, loads + 1)
       IN  /\ r.loaded => loads < MaxLoads
           /\ sys_modules' = r.modules
           /\ loads' = IF r.loaded THEN loads + 1 ELSE loads
           /\ tried' = Append(tried, dist_name)
           /\ IF r.raised THEN Raise("Exception", <<>>)
              ELSE IF r.ret # None THEN Return(r.ret)
              ELSE /\ IF dist_idx < Len(dist_names)
                      THEN pc' = "dist" /\ dist_idx' = dist_idx + 1
                      ELSE pc' = "raise" /\ dist_idx' = dist_idx
                   /\ UNCHANGED <<_CACHED, imported, orig_sys_path, orig_samgeo_mod,
                                  result, entry, s2_pre>>
    /\ UNCHANGED <<sys_path, env, envChanges>>

\* raise ImportError(...)
RaiseImportError ==
    /\ pc = "raise"
    /\ Raise("ImportError",
             ErrorMessage(interp.executable, VersionString(interp.version_info)))
    /\ UNCHANGED <<sys_modules, sys_path, env, loads, envChanges, tried>>

\* ------------------------------------------------------------- environment
\* Between calls the rest of the process and the user change the import
\* state: sys.path is edited, the library is installed, removed or broken,
\* distributions are installed or removed, modules are imported or dropped.
EnvStep ==
    /\ pc = "idle"
    /\ envChanges < MaxEnvChanges
    /\ envChanges' = envChanges + 1
    /\ UNCHANGED <<_CACHED, pc, locals, result, tried, entry, s2_pre, pluginName,
                   pluginInit, interp>>

EnvSetPath ==
    /\ EnvStep
    /\ \E p \in Paths \ {sys_path} : sys_path' = p
    /\ UNCHANGED <<sys_modules, sitePkg, dists, loads>>

EnvSetSitePkg ==
    /\ EnvStep
    /\ \E k \in PkgKinds \ {sitePkg} : sitePkg' = k
    /\ UNCHANGED <<sys_modules, sys_path, dists, loads>>

EnvSetDist ==
    /\ EnvStep
    /\ \E n \in Range(dist_names) :
          \E d \in DistStates \ {dists[n]} : dists' = [dists EXCEPT ![n] = d]
    /\ UNCHANGED <<sys_modules, sys_path, sitePkg, loads>>

\* Other code runs del sys.modules[name].
EnvUnregister ==
    /\ EnvStep
    /\ \E n \in ModuleNames :
          /\ sys_modules[n] # None
          /\ sys_modules' = [sys_modules EXCEPT ![n] = None]
    /\ UNCHANGED <<sys_path, sitePkg, dists, loads>>

\* Other code runs import samgeo.
EnvImport ==
    /\ EnvStep
    /\ LET r == import_module(sys_modules, sys_path, loads + 1)
       IN  /\ r.loaded
           /\ loads < MaxLoads
           /\ sys_modules' = r.modules
           /\ loads' = loads + 1
    /\ UNCHANGED <<sys_path, sitePkg, dists>>

\* ------------------------------------------------------------ specification
PluginModule == NewModule(1, <<PluginsDir, "/", LogicalName, "/", "__init__.py">>, TRUE)

Init ==
    /\ _CACHED = None
    /\ pluginName \in PluginNames
    /\ pluginInit \in {"ok", "raises"}
    /\ pluginName # LogicalName => pluginInit = "ok"
    /\ sitePkg \in PkgKinds
    /\ dists \in [Range(dist_names) -> DistStates]
    /\ interp \in Interpreters
    /\ sys_path \in Paths
    \* the plugin package is already imported (QGIS loaded it), or the file
    \* is run outside the package
    /\ \E registered \in BOOLEAN :
          /\ registered => pluginName = LogicalName
          /\ sys_modules = [n \in ModuleNames |->
                               IF n = LogicalName /\ registered THEN PluginModule ELSE None]
          /\ loads = IF registered THEN 1 ELSE 0
    /\ pc = "idle"
    /\ dist_idx = 1
    /\ imported = None
    /\ orig_sys_path = <<>>
    /\ orig_samgeo_mod = None
    /\ envChanges = 0
    /\ result = NoResult
    /\ tried = <<>>
    /\ entry = NoSnapshot
    /\ s2_pre = NoPre

Next ==
    \/ GetSamgeoCached
    \/ DirectImport
    \/ ShadowEnter
    \/ ShadowImport
    \/ ShadowFinally
    \/ LoadFromDist
    \/ RaiseImportError
    \/ EnvSetPath
    \/ EnvSetSitePkg
    \/ EnvSetDist
    \/ EnvUnregister
    \/ EnvImport

Spec == Init /\ [][Next]_vars

\* ------------------------------------------------------------------ claims
\* The origin file lies in the plugin's package directory.
InsidePluginDir(file) ==
    /\ Len(file) >= 3
    /\ file[1] = PluginsDir /\ file[2] = "/" /\ file[3] = pluginName
    /\ Len(file) > 3 => file[4] = "/"

\* C1: once get_samgeo() has returned a handle, every later call returns the
\* identical handle, and the cache slot, once non-empty, never changes or
\* becomes empty again, whatever the environment does in between.
C1_CacheNeverInvalidated ==
    /\ [](result.kind = "handle" => _CACHED = result.handle)
    /\ [][/\ _CACHED # None => _CACHED' = _CACHED
          /\ result.kind = "handle" =>
                (result'.kind = "handle" /\ result'.handle = result.handle)]_vars

\* A later call answered from the cache after the environment changed and the
\* handle is no longer registered under any name.
C1_Witness ==
    /\ result.kind = "handle"
    /\ tried = <<>>
    /\ envChanges > 0
    /\ \A n \in ModuleNames : sys_modules[n] # result.handle

C3_NoIntermediateException ==
    result.kind \in {"none", "running", "handle", "ImportError"}

\* A step that ends the running get_samgeo() call.
CallEnds == pc # "idle" /\ pc' = "idle"

\* The import of samgeo, as the call found it (entry) and with the plugin
\* parent suppressed, fails or resolves inside the plugin directory.
NoUnshadowedImport ==
    LET direct == import_module(entry.modules, entry.path, 0)
        retry == import_module([entry.modules EXCEPT ![LogicalName] = None],
                               SelectSeq(entry.path, LAMBDA p : p # PluginsDir), 0)
    IN  /\ direct.raised \/ InsidePluginDir(direct.module.file)
        /\ retry.raised \/ InsidePluginDir(retry.module.file)

\* Neither samgeo nor samgeo-py is found in the distribution metadata.
NoDistribution ==
    \A n \in {"samgeo", "samgeo-py"} :
        dists[n].state = "absent" \/ SiteDir \notin Range(entry.path)

\* C4: with no distribution installed and no non-shadowed import possible, the
\* call ends with the ImportError whose message holds sys.executable and the
\* major.minor.micro version string.
C4_ResolutionErrorDiagnostic ==
    [][(CallEnds /\ NoUnshadowedImport /\ NoDistribution) =>
          /\ result'.kind = "ImportError"
          /\ Contains(result'.message, <<"executable: ", interp.executable>>)
          /\ Contains(result'.message,
                      <<"version: ", ToString(interp.version_info[1]), ".",
                        ToString(interp.version_info[2]), ".",
                        ToString(interp.version_info[3])>>)]_vars

\* A call that tried every strategy and raised the ImportError while the
\* plugin shadows the logical name.
C4_Witness ==
    /\ result.kind = "ImportError"
    /\ \A n \in {"samgeo", "samgeo-py"} : dists[n].state = "absent"
    /\ tried = <<"direct", "shadow", "samgeo", "samgeo-py">>
    /\ pluginName = LogicalName
    /\ result.message # <<>>

\* C5: when the path-suppressed retry finishes, sys.path holds the entries it
\* held before the retry, in the same order; within a call the path differs
\* from the one the call started with only while the retry is in progress.
C5_SearchPathRestored ==
    /\ [](pc \in {"shadow", "dist", "raise"} => sys_path = entry.path)
    /\ [][pc = "shadow_finally" => sys_path' = s2_pre.path]_vars

\* The retry has run with the plugin parent on the path and suppressed in
\* between, and the path holds the plugin parent again.
C5_Witness ==
    /\ pc = "dist"
    /\ tried = <<"direct", "shadow">>
    /\ sys_path = <<PluginsDir, SiteDir>>
    /\ sitePkg = "raises"

\* C6: when the path-suppressed retry finishes, sys.modules["samgeo"] is what
\* it was before the retry: the same module, or no entry if there was none.
C6_RegistryEntryRestored ==
    [][pc = "shadow_finally" => sys_modules'[LogicalName] = s2_pre.mod]_vars

\* The plugin occupies the logical name and the library is installed in
\* site-packages, which is on the search path.
C7_Scenario ==
    LET direct == import_module(entry.modules, entry.path, 0)
    IN  /\ pluginName = LogicalName
        /\ ~direct.raised /\ InsidePluginDir(direct.module.file)
        /\ sitePkg = "ok"
        /\ SiteDir \in Range(entry.path)

\* C7: in that scenario get_samgeo() returns a handle whose origin is
\* site-packages/samgeo/__init__.py, through strategy 2 or 3, and does not raise.
C7_ShadowedLibraryResolved ==
    [][(CallEnds /\ C7_Scenario) =>
          /\ result'.kind = "handle"
          /\ result'.handle.file = <<SiteDir, "/", "samgeo", "/", "__init__.py">>
          /\ Len(tried') >= 2]_vars

\* The external library was returned while the plugin package is the module
\* registered under the logical name.
C7_Witness ==
    /\ result.kind = "handle"
    /\ result.handle.file = <<SiteDir, "/", "samgeo", "/", "__init__.py">>
    /\ tried = <<"direct", "shadow">>
    /\ sys_modules[LogicalName] = PluginModule
    /\ PluginsDir \in Range(sys_path)

StrategyOrder == <<"direct", "shadow", "samgeo", "samgeo-py">>

\* C8: the strategies are attempted in the order direct, shadow, samgeo,
\* samgeo-py; a strategy runs only while no handle has been obtained, and the
\* strategy that yields a handle ends the call with that handle cached and
\* returned.
C8_FirstSuccessWins ==
    /\ [](tried = SubSeq(StrategyOrder, 1, Len(tried)))
    /\ [](pc # "idle" => _CACHED = None /\ result.kind = "running")
    /\ [][/\ (pc = "shadow_finally" /\ imported # None) =>
                (pc' = "idle" /\ _CACHED' = imported /\ result' = Returned(imported))
          /\ (pc = "idle" /\ tried' # tried /\ tried' = <<"direct">>) =>
                LET r == import_module(sys_modules, sys_path, loads + 1)
                IN  (~r.raised /\ ~InsidePluginDir(r.module.file)) =>
                       (pc' = "idle" /\ _CACHED' = r.module /\ result' = Returned(r.module))
          /\ (pc = "dist" /\ tried' # tried) =>
                LET r == _load_external_samgeo_from_dist(
                             tried'[Len(tried')], sys_modules, sys_path, loads + 1)
                IN  (~r.raised /\ r.ret # None) =>
                       (pc' = "idle" /\ _CACHED' = r.ret /\ result' = Returned(r.ret))
          /\ result'.kind = "handle" => (pc' = "idle" /\ _CACHED' = result'.handle)
          /\ (tried' # tried /\ tried' # <<>>) =>
                /\ _CACHED = None
                /\ tried' = IF pc = "idle" THEN <<"direct">>
                            ELSE SubSeq(StrategyOrder, 1, Len(tried) + 1)]_vars

\* The second candidate name produced the handle after the three earlier
\* attempts failed.
C8_Witness ==
    /\ result.kind = "handle"
    /\ tried = StrategyOrder
    /\ _CACHED = result.handle

\* C9: a call ends in an error only after all strategies were attempted, and
\* the error is the diagnostic ImportError.
C9_ErrorOnlyAfterAllStrategies ==
    result.kind \notin {"none", "running", "handle"} =>
        (tried = StrategyOrder /\ result.kind = "ImportError")

\* C10: strategy 3 leaves sys.modules["samgeo"] as it was, registers a module
\* it loads under samgeo_external, and the handle it returns is the module
\* registered under samgeo_external.
C10_AliasRegistration ==
    [][pc = "dist" =>
          /\ sys_modules'[LogicalName] = sys_modules[LogicalName]
          /\ loads' # loads =>
                (sys_modules'[alias_name].id = loads' /\ sys_modules[alias_name] = None)
          /\ result'.kind = "handle" => result'.handle = sys_modules'[alias_name]]_vars

\* Strategy 3 loaded the library in this call: it is registered under the
\* alias and the plugin is still the module registered under samgeo.
C10_Witness ==
    /\ result.kind = "handle"
    /\ Len(tried) >= 3
    /\ result.handle.id = loads
    /\ sys_modules[alias_name] = result.handle
    /\ sys_modules[LogicalName] = PluginModule

\* A step of get_samgeo() taken from the idle state: the start of a call.
CallStarts == pc = "idle" /\ envChanges' = envChanges

\* C11: when the direct import succeeds with a module whose origin lies in
\* the plugin directory, strategy 1 neither caches nor returns it and the
\* call goes on to the path-suppressed retry.
C11_ShadowedDirectImportRejected ==
    [][(CallStarts /\ _CACHED = None) =>
          LET r == import_module(sys_modules, sys_path, loads + 1)
          IN  (~r.raised /\ InsidePluginDir(r.module.file)) =>
                 /\ pc' = "shadow"
                 /\ _CACHED' = None
                 /\ result'.kind # "handle"
                 /\ tried' = <<"direct">>]_vars

\* The direct import found the plugin package registered under the logical
\* name, nothing is cached and the retry is next.
C11_Witness ==
    /\ pc = "shadow"
    /\ tried = <<"direct">>
    /\ sys_modules[LogicalName] = PluginModule
    /\ _CACHED = None
    /\ result.kind = "running"

\* C12: an invocation of strategy 3 that finds a module registered under the
\* alias returns that module, for either candidate name, executes no
\* initializer and leaves the registry unchanged.
C12_AliasAlwaysReused ==
    [][(pc = "dist" /\ sys_modules[alias_name] # None) =>
          /\ result' = Returned(sys_modules[alias_name])
          /\ sys_modules' = sys_modules
          /\ loads' = loads]_vars


\* C13: with the cache populated, a get_samgeo() call returns the cached
\* handle and does nothing else: no strategy is attempted, no module is
\* created, sys.path and every sys.modules entry stay as they are, whatever
\* the environment has become since the handle was cached.
C13_CachedReturnTouchesNothing ==
    [][(CallStarts /\ _CACHED # None) =>
          /\ result' = Returned(_CACHED)
          /\ tried' = <<>>
          /\ pc' = "idle"
          /\ _CACHED' = _CACHED
          /\ sys_path' = sys_path
          /\ sys_modules' = sys_modules
          /\ loads' = loads]_vars

\* A call answered from the cache although nothing could be resolved any
\* more: the library and its distributions are gone and no module is
\* registered.
C13_Witness ==
    /\ result.kind = "handle"
    /\ tried = <<>>
    /\ _CACHED = result.handle
    /\ \A n \in ModuleNames : sys_modules[n] = None
    /\ \/ sitePkg = "absent"
       \/ SiteDir \notin Range(sys_path)

\* The first file of a listing, in listing order, whose name with forward
\* slashes ends in samgeo/__init__.py; 0 when no file matches.
FirstMatch(files) ==
    IF \E i \in DOMAIN files : EndsWith(Replace(files[i]), InitFile)
    THEN CHOOSE i \in DOMAIN files :
            /\ EndsWith(Replace(files[i]), InitFile)
            /\ \A j \in 1..(i - 1) : ~EndsWith(Replace(files[j]), InitFile)
    ELSE 0

\* C14: strategy 3 loads exactly the first listed file that ends in
\* samgeo/__init__.py; when the distribution is not installed or lists no
\* such file it returns no handle and leaves the registry unchanged.
C14_FirstListedInitializerLoaded ==
    [][pc = "dist" =>
          LET name == dist_names[dist_idx]
              files == dists[name].files
              found == SiteDir \in Range(sys_path) /\ dists[name].state = "installed"
              k == FirstMatch(files)
          IN  /\ (~found \/ k = 0) =>
                    /\ sys_modules' = sys_modules
                    /\ loads' = loads
                    /\ result'.kind # "handle"
                    /\ _CACHED' = None
              /\ (found /\ k # 0 /\ sys_modules[alias_name] = None) =>
                    /\ loads' = loads + 1
                    /\ sys_modules'[alias_name].id = loads'
                    /\ sys_modules'[alias_name].file = <<SiteDir, "/">> \o Replace(files[k])
                    /\ result'.kind = "handle" => result'.handle = sys_modules'[alias_name]
              /\ loads' # loads => (found /\ k # 0)]_vars

\* Strategy 3 loaded the first matching file of a listing that holds a second
\* match further down, and returned it.
C14_Witness ==
    /\ result.kind = "handle"
    /\ Len(tried) >= 3
    /\ result.handle = sys_modules[alias_name]
    /\ result.handle.file = <<SiteDir, "/", "x", "samgeo", "/", "__init__.py">>
    /\ result.handle.id = loads


Errors == {"ImportError", "Exception"}

\* C15: a call that ends in an error leaves _CACHED empty, and the call after
\* it starts again with strategy 1 and returns the module the direct import
\* then resolves to, if that lies outside the plugin directory.
C15_FailureNotMemoized ==
    /\ [](result.kind \in Errors => _CACHED = None)
    /\ [][(CallStarts /\ result.kind \in Errors) =>
             /\ tried' = <<"direct">>
             /\ LET r == import_module(sys_modules, sys_path, loads + 1)
                IN  (~r.raised /\ ~InsidePluginDir(r.module.file)) =>
                       (result' = Returned(r.module) /\ _CACHED' = r.module)]_vars

\* An earlier call raised while it executed the initializer (the module it
\* left behind is still registered); the library was repaired and a later
\* call returned it.
C15_Witness ==
    /\ result.kind = "handle"
    /\ result.handle.complete
    /\ result.handle.file = <<SiteDir, "/", "samgeo", "/", "__init__.py">>
    /\ sys_modules[alias_name] # None
    /\ ~sys_modules[alias_name].complete
    /\ Len(tried) >= 1

\* C16: every handle that is returned or cached is a module whose
\* initializer ran to completion.
C16_OnlyInitializedHandles ==
    /\ _CACHED # None => _CACHED.complete
    /\ result.kind = "handle" => result.handle.complete

====
